---- MODULE Spec2Model ----
(***************************************************************************)
(* Phased UI-enhancement workflow (agent.py) and the safety-checked file   *)
(* writer (tools/modify_ui_file.py), with the verification and revert      *)
(* tools the workflow drives.                                              *)
(*                                                                         *)
(* Text is a sequence of tokens.  A token is one character, except the     *)
(* words the regular expressions of the source look for ("if", "client:",  *)
(* the directive names), which are kept whole; TokLen gives the number of  *)
(* characters of a token.  "q" is the double-quote character, "BAD" a byte *)
(* that is not valid UTF-8 (only ever part of a file on disk, never of a   *)
(* decoded text).                                                          *)
(***************************************************************************)
EXTENDS Integers, Sequences, FiniteSets, TLC

\* ------------------------------------------------------------------------
\* Bounds of the model
\* ------------------------------------------------------------------------
MaxTargets == 2

\* ------------------------------------------------------------------------
\* Text helpers
\* ------------------------------------------------------------------------
\* the content of a path that does not exist
NoFile == <<"<absent>">>

Directives == {"load", "visible", "only", "media", "idle"}

Whitespace == {" ", "\n", "\r"}

TokLen(t) ==
    CASE t = "if" -> 2
      [] t = "client:" -> 7
      [] t = "load" -> 4
      [] t = "idle" -> 4
      [] t = "only" -> 4
      [] t = "media" -> 5
      [] t = "visible" -> 7
      [] OTHER -> 1

Last(s) == s[Len(s)]

Front(s) == SubSeq(s, 1, Len(s) - 1)

\* TRUE iff pat occurs in s starting at index i
MatchAt(s, pat, i) ==
    /\ i >= 1
    /\ i + Len(pat) - 1 <= Len(s)
    /\ \A k \in 1..Len(pat) : s[i + k - 1] = pat[k]

\* str.replace(old, new) for a non-empty old: every non-overlapping
\* occurrence, scanning left to right
RECURSIVE ReplaceFrom(_, _, _, _)
ReplaceFrom(s, old, new, i) ==
    IF i > Len(s) THEN <<>>
    ELSE IF MatchAt(s, old, i) THEN new \o ReplaceFrom(s, old, new, i + Len(old))
    ELSE <<s[i]>> \o ReplaceFrom(s, old, new, i + 1)

StrReplace(s, old, new) == ReplaceFrom(s, old, new, 1)

\* ------------------------------------------------------------------------
\* validate_syntax: the bracket scan
\* ------------------------------------------------------------------------
brackets == [c \in {"(", "[", "{"} |->
                CASE c = "(" -> ")" [] c = "[" -> "]" [] c = "{" -> "}"]

OpenChars == DOMAIN brackets

CloseChars == {brackets[c] : c \in OpenChars}

\* which still-open bracket the 'unclosed' diagnostic names: stack[-1]
UnclosedPick(stack) == Last(stack)

\* position the scan holds after reading char: a newline starts a new line
\* at column 1, any other character adds one column; the counter is bumped
\* before the character is examined
ScanPos(line, col, char) ==
    IF char = "\n" THEN [line |-> line + 1, col |-> 1]
    ELSE [line |-> line, col |-> col + TokLen(char)]

RECURSIVE BracketScan(_, _, _, _, _)
BracketScan(content, i, stack, line, col) ==
    IF i > Len(content) THEN
        IF stack # <<>>
        THEN [kind |-> "unclosed", ch |-> UnclosedPick(stack).ch,
              line |-> UnclosedPick(stack).line, col |-> UnclosedPick(stack).col]
        ELSE [kind |-> "ok", ch |-> "", line |-> 0, col |-> 0]
    ELSE
        LET char == content[i]
            pos  == ScanPos(line, col, char)
        IN  IF char \in OpenChars THEN
                BracketScan(content, i + 1,
                            Append(stack, [ch |-> char, line |-> pos.line, col |-> pos.col]),
                            pos.line, pos.col)
            ELSE IF char \in CloseChars THEN
                IF stack = <<>> THEN
                    [kind |-> "unexpected", ch |-> char, line |-> pos.line, col |-> pos.col]
                ELSE IF brackets[Last(stack).ch] # char THEN
                    [kind |-> "mismatched", ch |-> char, line |-> pos.line, col |-> pos.col]
                ELSE BracketScan(content, i + 1, Front(stack), pos.line, pos.col)
            ELSE BracketScan(content, i + 1, stack, pos.line, pos.col)

\* ------------------------------------------------------------------------
\* validate_syntax: the if-header check of .js / .jsx files
\*   if_stmt_pattern = r'if\s*\([^)]*\s*\{'
\* ------------------------------------------------------------------------
RECURSIVE SkipSpace(_, _)
SkipSpace(s, i) ==
    IF i <= Len(s) /\ s[i] \in Whitespace THEN SkipSpace(s, i + 1) ELSE i

\* index of the first ")" at or after i, Len(s) + 1 when there is none
RECURSIVE FirstClose(_, _)
FirstClose(s, i) ==
    IF i > Len(s) \/ s[i] = ")" THEN i ELSE FirstClose(s, i + 1)

\* end index of the match that starts at i (0 = no match at i): "if", white
\* space, "(", then greedily everything but ")" up to the last "{"
IfMatchEnd(s, i) ==
    IF i > Len(s) \/ s[i] # "if" THEN 0
    ELSE LET p == SkipSpace(s, i + 1)
         IN  IF p > Len(s) \/ s[p] # "(" THEN 0
             ELSE LET lim == FirstClose(s, p + 1)
                      ends == {e \in (p + 1)..(lim - 1) : s[e] = "{"}
                  IN  IF ends = {} THEN 0
                      ELSE CHOOSE e \in ends : \A f \in ends : f <= e

\* re.findall(...)[0]: the leftmost match, <<>> when the pattern is absent
FirstIfStmt(s) ==
    LET starts == {i \in 1..Len(s) : IfMatchEnd(s, i) # 0}
    IN  IF starts = {} THEN <<>>
        ELSE LET i == CHOOSE j \in starts : \A k \in starts : j <= k
             IN  SubSeq(s, i, IfMatchEnd(s, i))

\* ------------------------------------------------------------------------
\* Astro client directives
\* ------------------------------------------------------------------------
HasDirective(s) ==
    \E i \in 1..(Len(s) - 1) : s[i] = "client:" /\ s[i + 1] \in Directives

\* index of the first "q" at or after i, 0 when there is none
RECURSIVE FirstQuote(_, _)
FirstQuote(s, i) ==
    IF i > Len(s) THEN 0 ELSE IF s[i] = "q" THEN i ELSE FirstQuote(s, i + 1)

\* re.sub(r'client:(load|visible|only|media|idle)="[^"]*"', '', s)
RECURSIVE StripValued(_, _)
StripValued(s, i) ==
    IF i > Len(s) THEN <<>>
    ELSE IF /\ i + 3 <= Len(s)
            /\ s[i] = "client:" /\ s[i + 1] \in Directives
            /\ s[i + 2] = "=" /\ s[i + 3] = "q"
            /\ FirstQuote(s, i + 4) # 0
         THEN StripValued(s, FirstQuote(s, i + 4) + 1)
    ELSE <<s[i]>> \o StripValued(s, i + 1)

\* re.sub(r'client:(load|visible|only|media|idle)', '', s)
RECURSIVE StripBare(_, _)
StripBare(s, i) ==
    IF i > Len(s) THEN <<>>
    ELSE IF i + 1 <= Len(s) /\ s[i] = "client:" /\ s[i + 1] \in Directives
         THEN StripBare(s, i + 2)
    ELSE <<s[i]>> \o StripBare(s, i + 1)

StripDirectives(s) == StripBare(StripValued(s, 1), 1)

validate_astro_file(content) ==
    IF HasDirective(content)
    THEN [valid |-> FALSE, content |-> StripDirectives(content)]
    ELSE [valid |-> TRUE, content |-> content]

\* ------------------------------------------------------------------------
\* File types (str.endswith / os.path.splitext on the path)
\* ------------------------------------------------------------------------
Ext == [p \in {"a.astro", "b.js", "c.css"} |->
            CASE p = "a.astro" -> ".astro" [] p = "b.js" -> ".js" [] p = "c.css" -> ".css"]

validate_syntax(file_path, content) ==
    LET scan == BracketScan(content, 1, <<>>, 1, 1)
        if_stmt == FirstIfStmt(content)
    IN  IF scan.kind # "ok" THEN
            [valid |-> FALSE, content |-> content, kind |-> scan.kind,
             ch |-> scan.ch, line |-> scan.line, col |-> scan.col]
        ELSE IF Ext[file_path] \in {".js", ".jsx"} /\ if_stmt # <<>> THEN
            [valid |-> FALSE,
             content |-> StrReplace(content, if_stmt, StrReplace(if_stmt, <<"{">>, <<")", " ", "{">>)),
             kind |-> "fixed", ch |-> "", line |-> 0, col |-> 0]
        ELSE IF Ext[file_path] = ".astro" /\ HasDirective(content) THEN
            [valid |-> FALSE, content |-> StripDirectives(content),
             kind |-> "directives", ch |-> "", line |-> 0, col |-> 0]
        ELSE [valid |-> TRUE, content |-> content, kind |-> "",
              ch |-> "", line |-> 0, col |-> 0]

\* ------------------------------------------------------------------------
\* Files on disk: a path holds a byte sequence or is absent.  Text-mode
\* reading (encoding='utf-8', universal newlines) decodes the bytes and
\* turns "\r\n" and a lone "\r" into "\n"; text-mode writing on a POSIX
\* host stores the text as it is.
\* ------------------------------------------------------------------------
Decodable(b) == \A i \in 1..Len(b) : b[i] # "BAD"

RECURSIVE Newlines(_, _)
Newlines(b, i) ==
    IF i > Len(b) THEN <<>>
    ELSE IF b[i] = "\r"
         THEN <<"\n">> \o Newlines(b, IF i + 1 <= Len(b) /\ b[i + 1] = "\n" THEN i + 2 ELSE i + 1)
    ELSE <<b[i]>> \o Newlines(b, i + 1)

ReadText(b) == Newlines(b, 1)

WriteText(text) == text

\* ------------------------------------------------------------------------
\* modify_ui_file (the safety-checked writer)
\*   fault: what the filesystem does to this call
\*     "none"    every operation succeeds
\*     "backup"  shutil.copy2 of the backup raises
\*     "read"    reading the original, or opening the file for writing, raises
\*     "write"   f.write raises after the file was truncated
\*     "write_norestore"  as "write", and the restoring copy in the handler
\*               raises too
\* ------------------------------------------------------------------------
Faults == {"none", "backup", "read", "write", "write_norestore"}

\* a variant whose restoring copy never succeeds
RestoreFailsAlways(fault) == TRUE

\* the copy back from the backup, in the handler, raises
RestoreFails(fault) == fault = "write_norestore"

\* a variant that leaves an empty backup behind for a path that does not exist
NotFoundTouchesBackup(fl, bk, file_path) ==
    [files |-> fl, bak |-> [bk EXCEPT ![file_path] = <<>>], success |-> FALSE,
     error |-> "does not exist", wrote |-> FALSE, bakAtWrite |-> NoFile]

\* if not os.path.exists(full_path): the answer, and the files as they are
NotFound(fl, bk, file_path) ==
    [files |-> fl, bak |-> bk, success |-> FALSE, error |-> "does not exist",
     wrote |-> FALSE, bakAtWrite |-> NoFile]

\* a variant that keeps an existing backup instead of overwriting it
BackupKeepFirst(bk, fl, p) == IF bk[p] = NoFile THEN [bk EXCEPT ![p] = fl[p]] ELSE bk

\* a variant that backs up every file of the working copy
BackupStepAll(bk, fl, p) == [q \in DOMAIN bk |-> IF fl[q] # NoFile THEN fl[q] ELSE bk[q]]

\* shutil.copy2(full_path, backup_path)
BackupStep(bk, fl, p) == [bk EXCEPT ![p] = fl[p]]

\* a variant that stores the repaired buffer without validating it again
TransformedNoRecheck(file_path, original_content, enhanced_content) ==
    LET chosen == IF enhanced_content = <<>> THEN original_content ELSE enhanced_content
        sanitized == IF Ext[file_path] = ".astro"
                     THEN validate_astro_file(chosen).content ELSE chosen
        first == validate_syntax(file_path, sanitized)
    IN  IF first.valid THEN sanitized ELSE first.content

\* the content the writer decides to store, from the decoded original and
\* the content handed in
Transformed(file_path, original_content, enhanced_content) ==
    LET chosen == IF enhanced_content = <<>> THEN original_content ELSE enhanced_content
        sanitized == IF Ext[file_path] = ".astro"
                     THEN validate_astro_file(chosen).content ELSE chosen
        first == validate_syntax(file_path, sanitized)
        again == validate_syntax(file_path, first.content)
    IN  IF first.valid THEN sanitized
        ELSE IF again.valid THEN first.content
        ELSE original_content

\* ------------------------------------------------------------------------
\* The files and texts of the runs explored
\* ------------------------------------------------------------------------
Paths == {"a.astro", "b.js"}

\* what a fresh working copy may hold at each path
AstroContents == {<<"x">>, <<"client:", "load", "x">>}

JsContents == {<<"{", "\r", "\n", "}">>, <<"{", "\r", "\n">>, <<"BAD">>, NoFile}

\* what the content generator may answer (after the fenced block, if any,
\* has been taken off)
GenContents == {<<>>, <<"{", "x", "}">>, <<"{">>, <<"client:", "load">>}

\* the contents handed to the writer when it is called on its own: those
\* above, and markers nested so that removing the inner one forms a new one
ToolContents ==
    GenContents \cup {<<"client:", "client:", "load", "load">>,
                      <<"client:", "client:", "client:", "load", "load", "load">>}

\* the texts a file of a run can hold when the writer reads it: the decoded
\* contents of the working copy, a file cut short by a failed write, and
\* whatever the writer stores from these
RECURSIVE TextsFrom(_)
TextsFrom(S) ==
    LET T == S \cup {Transformed(p, o, n) : p \in Paths, o \in S, n \in ToolContents}
    IN  IF T = S THEN S ELSE TextsFrom(T)

KnownTexts ==
    TextsFrom({<<>>} \cup {ReadText(c) : c \in {d \in (AstroContents \cup JsContents) \ {NoFile} :
                                                Decodable(d)}})

\* Transformed, tabulated over the texts of the runs explored
TransformedOf ==
    [p \in Paths, o \in KnownTexts, n \in ToolContents |-> Transformed(p, o, n)]

modify_ui_file(fl, bk, file_path, enhanced_content, fault) ==
    IF fl[file_path] = NoFile THEN NotFound(fl, bk, file_path)
    ELSE IF fault = "backup" THEN
        [files |-> fl, bak |-> bk, success |-> FALSE, error |-> "Failed to create backup",
         wrote |-> FALSE, bakAtWrite |-> NoFile]
    ELSE
        LET bk1 == BackupStep(bk, fl, file_path)
            pre == fl[file_path]
            readRaises == fault = "read" \/ ~Decodable(pre)
            writeRaises == fault \in {"write", "write_norestore"}
            \* the file as the raising operation left it
            damaged == IF ~readRaises /\ writeRaises
                       THEN [fl EXCEPT ![file_path] = <<>>] ELSE fl
            restored == IF RestoreFails(fault) THEN damaged
                        ELSE [damaged EXCEPT ![file_path] = bk1[file_path]]
        IN  IF readRaises \/ writeRaises THEN
                [files |-> restored, bak |-> bk1, success |-> FALSE, error |-> "Error enhancing",
                 wrote |-> TRUE,
                 bakAtWrite |-> bk1[file_path]]
            ELSE
                [files |-> [fl EXCEPT ![file_path] =
                               WriteText(TransformedOf[file_path, ReadText(pre), enhanced_content])],
                 bak |-> bk1, success |-> TRUE, error |-> "",
                 wrote |-> TRUE, bakAtWrite |-> bk1[file_path]]

\* ------------------------------------------------------------------------
\* revert_ui_changes (batch): each path on its own, in list order
\*   faults: per path, what the filesystem does to its restore
\*     "none"    both operations succeed
\*     "copy"    shutil.copy2 raises, the file is left as it was
\*     "remove"  the copy succeeds and os.remove of the backup raises
\* ------------------------------------------------------------------------
RevertFaults == {"none", "copy", "remove"}

\* a variant that reports success without copying the backup over the file
RevertOneNoRestore(fl, bk, p, fault) ==
    IF bk[p] = NoFile THEN
        [files |-> fl, bak |-> bk, ok |-> FALSE, error |-> "Backup file not found"]
    ELSE IF fault = "copy" THEN
        [files |-> fl, bak |-> bk, ok |-> FALSE, error |-> "io"]
    ELSE IF fault = "remove" THEN
        [files |-> fl, bak |-> bk, ok |-> FALSE, error |-> "io"]
    ELSE
        [files |-> fl, bak |-> [bk EXCEPT ![p] = NoFile], ok |-> TRUE, error |-> ""]

\* the body of the loop, for one file_path
RevertOne(fl, bk, p, fault) ==
    IF bk[p] = NoFile THEN
        [files |-> fl, bak |-> bk, ok |-> FALSE, error |-> "Backup file not found"]
    ELSE IF fault = "copy" THEN
        [files |-> fl, bak |-> bk, ok |-> FALSE, error |-> "io"]
    ELSE IF fault = "remove" THEN
        [files |-> [fl EXCEPT ![p] = bk[p]], bak |-> bk, ok |-> FALSE, error |-> "io"]
    ELSE
        [files |-> [fl EXCEPT ![p] = bk[p]], bak |-> [bk EXCEPT ![p] = NoFile],
         ok |-> TRUE, error |-> ""]

RECURSIVE revert_ui_changes(_, _, _, _)
revert_ui_changes(fl, bk, files_to_revert, faults) ==
    IF files_to_revert = <<>> THEN
        [files |-> fl, bak |-> bk, successful_reverts |-> <<>>, failed_reverts |-> <<>>]
    ELSE
        LET p == Head(files_to_revert)
            one == RevertOne(fl, bk, p, faults[p])
            rest == revert_ui_changes(one.files, one.bak, Tail(files_to_revert), faults)
        IN  [files |-> rest.files, bak |-> rest.bak,
             successful_reverts |-> IF one.ok THEN <<p>> \o rest.successful_reverts
                                    ELSE rest.successful_reverts,
             failed_reverts |-> IF one.ok THEN rest.failed_reverts
                                ELSE <<[file |-> p, error |-> one.error]>> \o rest.failed_reverts]

\* ------------------------------------------------------------------------
\* verify_ui_changes: the second bracket matcher and the issue list
\* ------------------------------------------------------------------------
\* the scan over characters: stops at the first unexpected or mismatched
\* closer; result: [issue, stack] where stack is what is still open
RECURSIVE VerifyScan(_, _, _)
VerifyScan(content, i, stack) ==
    IF i > Len(content) THEN [issue |-> FALSE, stack |-> stack]
    ELSE LET char == content[i]
         IN  IF char \in OpenChars THEN VerifyScan(content, i + 1, Append(stack, char))
             ELSE IF char \in CloseChars THEN
                 IF stack = <<>> THEN [issue |-> TRUE, stack |-> stack]
                 ELSE IF brackets[Last(stack)] # char THEN [issue |-> TRUE, stack |-> Front(stack)]
                 ELSE VerifyScan(content, i + 1, Front(stack))
             ELSE VerifyScan(content, i + 1, stack)

\* a variant that overlooks brackets left open at the end
ScriptSyntaxIssuesNoUnclosed(content) == VerifyScan(content, 1, <<>>).issue

\* syntax_issues is non-empty for a script file
ScriptSyntaxIssues(content) ==
    LET r == VerifyScan(content, 1, <<>>) IN r.issue \/ r.stack # <<>>

Count(s, c) == Cardinality({i \in 1..Len(s) : s[i] = c})

\* css_issues is non-empty for a style file
CssSyntaxIssues(content) == Count(content, "{") # Count(content, "}")

\* the lower-cased words of the "issue" text of each kind of finding
IssueText ==
    [missing |-> <<"file", "not", "found", "after", "reported", "modification">>,
     script  |-> <<"syntax", "issues:">>,
     css     |-> <<"css", "syntax", "issues:">>,
     unread  |-> <<"error", "checking", "file:">>]

\* "syntax error" in issue.get("issue", "").lower()
MentionsSyntaxError(kind) ==
    \E i \in 1..Len(IssueText[kind]) : MatchAt(IssueText[kind], <<"syntax", "error">>, i)

\* the findings of verify_ui_changes for one entry of enhanced_files
IssuesOf(fl, path) ==
    IF fl[path] = NoFile THEN <<[file |-> path, kind |-> "missing", severity |-> "high"]>>
    ELSE IF ~Decodable(fl[path]) THEN <<[file |-> path, kind |-> "unread", severity |-> "medium"]>>
    ELSE IF Ext[path] \in {".js", ".jsx", ".ts", ".tsx"} /\ ScriptSyntaxIssues(ReadText(fl[path]))
         THEN <<[file |-> path, kind |-> "script", severity |-> "high"]>>
    ELSE IF Ext[path] \in {".css", ".scss"} /\ CssSyntaxIssues(ReadText(fl[path]))
         THEN <<[file |-> path, kind |-> "css", severity |-> "high"]>>
    ELSE <<>>

RECURSIVE verify_ui_changes(_, _)
verify_ui_changes(fl, entries) ==
    IF entries = <<>> THEN <<>>
    ELSE IssuesOf(fl, Head(entries).path) \o verify_ui_changes(fl, Tail(entries))

\* files_to_revert of verify_changes
FilesToRevert(issues) ==
    LET hits == SelectSeq(issues, LAMBDA i : MentionsSyntaxError(i.kind))
    IN  [k \in 1..Len(hits) |-> hits[k].file]

\* ------------------------------------------------------------------------
\* scan_for_ui_files.  Paths and file contents are sequences of characters
\* here, because the scan looks for keywords inside them.
\* ------------------------------------------------------------------------
\* the size above which a file is skipped
MaxSize == 1000000

ui_extensions ==
    <<[category |-> "markup", extensions |->
          <<<<".", "h", "t", "m", "l">>, <<".", "j", "s", "x">>, <<".", "t", "s", "x">>,
            <<".", "v", "u", "e">>, <<".", "s", "v", "e", "l", "t", "e">>,
            <<".", "a", "s", "t", "r", "o">>, <<".", "e", "j", "s">>>>],
      [category |-> "style", extensions |->
          <<<<".", "c", "s", "s">>, <<".", "s", "c", "s", "s">>,
            <<".", "s", "a", "s", "s">>, <<".", "l", "e", "s", "s">>,
            <<".", "s", "t", "y", "l", "e", "d", ".", "j", "s">>,
            <<".", "s", "t", "y", "l", "e", ".", "j", "s">>>>],
      [category |-> "script", extensions |->
          <<<<".", "j", "s">>, <<".", "t", "s">>, <<".", "m", "j", "s">>,
            <<".", "c", "j", "s">>>>],
      [category |-> "animation", extensions |->
          <<<<".", "j", "s">>, <<".", "t", "s">>, <<".", "c", "s", "s">>,
            <<".", "s", "c", "s", "s">>>>],
      [category |-> "asset", extensions |->
          <<<<".", "s", "v", "g">>, <<".", "j", "p", "g">>, <<".", "p", "n", "g">>,
            <<".", "w", "e", "b", "p">>>>]>>

ui_keywords ==
    <<[aspect |-> "theme", keywords |->
          <<<<"t", "h", "e", "m", "e">>, <<"c", "o", "l", "o", "r">>,
            <<"p", "a", "l", "e", "t", "t", "e">>, <<"d", "a", "r", "k">>,
            <<"l", "i", "g", "h", "t">>, <<"s", "t", "y", "l", "e">>,
            <<"b", "r", "a", "n", "d">>>>],
      [aspect |-> "animation", keywords |->
          <<<<"a", "n", "i", "m", "a", "t", "i", "o", "n">>,
            <<"t", "r", "a", "n", "s", "i", "t", "i", "o", "n">>,
            <<"m", "o", "t", "i", "o", "n">>, <<"g", "s", "a", "p">>,
            <<"a", "n", "i", "m", "a", "t", "e">>,
            <<"k", "e", "y", "f", "r", "a", "m", "e">>>>],
      [aspect |-> "layout", keywords |->
          <<<<"l", "a", "y", "o", "u", "t">>, <<"g", "r", "i", "d">>,
            <<"f", "l", "e", "x">>, <<"c", "o", "n", "t", "a", "i", "n", "e", "r">>,
            <<"r", "e", "s", "p", "o", "n", "s", "i", "v", "e">>,
            <<"m", "o", "b", "i", "l", "e">>>>],
      [aspect |-> "component", keywords |->
          <<<<"c", "o", "m", "p", "o", "n", "e", "n", "t">>,
            <<"b", "u", "t", "t", "o", "n">>, <<"i", "n", "p", "u", "t">>,
            <<"f", "o", "r", "m">>, <<"c", "a", "r", "d">>, <<"m", "o", "d", "a", "l">>,
            <<"d", "i", "a", "l", "o", "g">>>>],
      [aspect |-> "navigation", keywords |->
          <<<<"n", "a", "v">>, <<"m", "e", "n", "u">>, <<"l", "i", "n", "k">>,
            <<"r", "o", "u", "t", "e">>, <<"p", "a", "t", "h">>,
            <<"d", "r", "a", "w", "e", "r">>, <<"s", "i", "d", "e", "b", "a", "r">>>>],
      [aspect |-> "performance", keywords |->
          <<<<"p", "e", "r", "f", "o", "r", "m", "a", "n", "c", "e">>,
            <<"l", "o", "a", "d", "i", "n", "g">>, <<"l", "a", "z", "y">>,
            <<"o", "p", "t", "i", "m", "i", "z", "e">>, <<"c", "a", "c", "h", "e">>>>]>>

\* str.lower(), on the characters the explored texts are made of
Lower(c) ==
    CASE c = "G" -> "g" [] c = "L" -> "l" [] c = "O" -> "o" [] c = "S" -> "s"
      [] c = "T" -> "t" [] c = "V" -> "v" [] OTHER -> c

LowerText(s) == [i \in 1..Len(s) |-> Lower(s[i])]

\* pat in s
Contains(s, pat) == \E i \in 1..(Len(s) + 1) : MatchAt(s, pat, i)

\* os.path.splitext(file)[1] for a name without directories: from the last
\* "." on, and empty when nothing but "." comes before that "."
SplitExt(name) ==
    LET dots == {i \in 1..Len(name) : name[i] = "." /\ \E k \in 1..(i - 1) : name[k] # "."}
    IN  IF dots = {} THEN <<>>
        ELSE SubSeq(name, CHOOSE i \in dots : \A j \in dots : j <= i, Len(name))

\* the first category whose extension list holds the extension, "None"
\* when no list does
FileCategory(extension) ==
    LET hits == {k \in 1..Len(ui_extensions) :
                    \E e \in 1..Len(ui_extensions[k].extensions) :
                        ui_extensions[k].extensions[e] = extension}
    IN  IF hits = {} THEN "None"
        ELSE ui_extensions[CHOOSE k \in hits : \A j \in hits : k <= j].category

\* sum(1 for kw in keywords if kw.lower() in text.lower())
KeywordMatches(keywords, text) ==
    Cardinality({k \in 1..Len(keywords) : Contains(LowerText(text), LowerText(keywords[k]))})

\* path_matches * 3 + content_matches
TotalMatches(keywords, path, content) ==
    KeywordMatches(keywords, path) * 3 + KeywordMatches(keywords, content)

\* a variant that lets a later aspect with the same count take over
BeatsOrTies(total_matches, max_matches) == total_matches >= max_matches

\* if total_matches > max_matches
Beats(total_matches, max_matches) == total_matches > max_matches

\* the loop over ui_keywords.items(), from the k-th aspect on
RECURSIVE AspectLoop(_, _, _, _, _)
AspectLoop(path, content, k, aspect_match, max_matches) ==
    IF k > Len(ui_keywords) THEN [aspect_match |-> aspect_match, max_matches |-> max_matches]
    ELSE LET total_matches == TotalMatches(ui_keywords[k].keywords, path, content)
         IN  IF Beats(total_matches, max_matches)
             THEN AspectLoop(path, content, k + 1, ui_keywords[k].aspect, total_matches)
             ELSE AspectLoop(path, content, k + 1, aspect_match, max_matches)

\* file_entry["aspect"]
AspectOf(path, content) ==
    LET r == AspectLoop(path, content, 1, "None", 0)
    IN  IF r.aspect_match # "None" /\ r.max_matches > 0 THEN r.aspect_match ELSE "other"

\* the keys of the result's ui_files
Aspects == {ui_keywords[k].aspect : k \in 1..Len(ui_keywords)} \cup {"other"}

\* The files a scanned tree is made of, in the order of their paths.  bytes
\* is what the file holds; pad counts the spaces that follow them in a file
\* too long to spell out.  <<"BAD">> is a byte that is not UTF-8.
SortedFiles ==
    <<[path |-> <<".", "c", "s", "s">>,
       bytes |-> <<"t", "h", "e", "m", "e">>, pad |-> 0],
      [path |-> <<"L", "O", "G", "O", ".", "S", "V", "G">>,
       bytes |-> <<"x">>, pad |-> 0],
      [path |-> <<"a", ".", "a", "s", "t", "r", "o">>,
       bytes |-> <<"g", "r", "i", "d", " ", "m", "o", "t", "i", "o", "n">>, pad |-> 0],
      [path |-> <<"b", ".", "h", "t", "m", "l">>,
       bytes |-> <<"x">>, pad |-> 0],
      [path |-> <<"b", "a", "d", ".", "c", "s", "s">>,
       bytes |-> <<"BAD">>, pad |-> 0],
      [path |-> <<"b", "i", "g", ".", "c", "s", "s">>,
       bytes |-> <<"c", "a", "r", "d">>, pad |-> MaxSize - 4],
      [path |-> <<"e", "m", "p", "t", "y", ".", "c", "s", "s">>,
       bytes |-> <<>>, pad |-> 0],
      [path |-> <<"h", "u", "g", "e", ".", "c", "s", "s">>,
       bytes |-> <<"c", "a", "r", "d">>, pad |-> MaxSize + 1 - 4],
      [path |-> <<"n", "a", "v", ".", "j", "s">>,
       bytes |-> <<"T", "h", "e", "m", "e", " ", "d", "a", "r", "k">>, pad |-> 0],
      [path |-> <<"n", "o", "t", "e", "s", ".", "t", "x", "t">>,
       bytes |-> <<"t", "h", "e", "m", "e">>, pad |-> 0],
      [path |-> <<"t", "h", "e", "m", "e", ".", "c", "s", "s">>,
       bytes |-> <<"c", "o", "l", "o", "r">>, pad |-> 0]>>

\* os.path.getsize
FileSize(f) == Len(f.bytes) + f.pad

\* a variant that skips large files only
SkippedIfLarge(f) == FileSize(f) > MaxSize

\* if size > 1000000 or size == 0: continue
Skipped(f) == FileSize(f) > MaxSize \/ FileSize(f) = 0

\* the file gets an entry: not skipped for its size, an extension of the
\* table, and open(...).read() does not raise
Listed(f) ==
    /\ ~Skipped(f)
    /\ FileCategory(LowerText(SplitExt(f.path))) # "None"
    /\ Decodable(f.bytes)

file_entry(f) ==
    [path |-> f.path, extension |-> LowerText(SplitExt(f.path)),
     category |-> FileCategory(LowerText(SplitExt(f.path))), size |-> FileSize(f),
     aspect |-> AspectOf(f.path, ReadText(f.bytes))]

\* the characters of the paths, in the order of their code points
CodePoints ==
    <<".", "G", "L", "O", "S", "V", "a", "b", "c", "d", "e", "g", "h", "i", "j",
      "l", "m", "n", "o", "p", "r", "s", "t", "u", "v", "x", "y">>

Ord(c) == CHOOSE i \in 1..Len(CodePoints) : CodePoints[i] = c

\* p < q for two strings, as the sort compares its keys
PathLess(p, q) ==
    \E k \in 1..Len(q) :
       /\ \A i \in 1..(k - 1) : i <= Len(p) /\ p[i] = q[i]
       /\ k > Len(p) \/ Ord(p[k]) < Ord(q[k])

\* os.walk hands the names of a directory over as the file system lists
\* them, in no particular order: here in the reverse of the path order (the
\* sorted result does not depend on it, the paths being distinct)
ListingOrder == [i \in 1..Len(SortedFiles) |-> SortedFiles[Len(SortedFiles) + 1 - i]]

\* a variant that leaves the entries as the walk found them
AsWalked(entries) == entries

\* ui_files[category].sort(key=lambda x: x["path"])
SortByPath(entries) ==
    [i \in 1..Len(entries) |->
        entries[CHOOSE j \in 1..Len(entries) :
                   Cardinality({k \in 1..Len(entries) :
                                   PathLess(entries[k].path, entries[j].path)}) = i - 1]]

\* sum(len(files) for files in ui_files.values())
RECURSIVE SumOfSizes(_, _)
SumOfSizes(groups, keys) ==
    IF keys = {} THEN 0
    ELSE LET a == CHOOSE k \in keys : TRUE
         IN  Len(groups[a]) + SumOfSizes(groups, keys \ {a})

\* the result for a tree (a set of files of SortedFiles): per aspect the
\* entries sorted by path, and summary["total_files"]
scan_for_ui_files(tree) ==
    LET listed  == SelectSeq(ListingOrder, LAMBDA f : f \in tree /\ Listed(f))
        entries == [i \in 1..Len(listed) |-> file_entry(listed[i])]
        groups  == [a \in Aspects |->
                       SortByPath(SelectSeq(entries, LAMBDA e : e.aspect = a))]
    IN  [ui_files |-> groups, total_files |-> SumOfSizes(groups, Aspects)]

\* ------------------------------------------------------------------------
\* modify_ui_file: the special handling of Astro files before validation
\* ------------------------------------------------------------------------
Sanitized(file_path, content) ==
    IF Ext[file_path] = ".astro"
    THEN [changed |-> ~validate_astro_file(content).valid,
          content |-> validate_astro_file(content).content]
    ELSE [changed |-> FALSE, content |-> content]

\* ------------------------------------------------------------------------
\* The workflow (agent.py)
\* ------------------------------------------------------------------------
\* the extensions of ui_extensions
UiExtensions == {".html", ".jsx", ".tsx", ".vue", ".svelte", ".astro", ".ejs",
                 ".css", ".scss", ".sass", ".less", ".js", ".ts", ".mjs", ".cjs",
                 ".svg", ".jpg", ".png", ".webp"}

SeqsUpTo(S, n) == UNION {[1..k -> S] : k \in 0..n}

VARIABLES
    phase,               \* state["phase"]
    files,               \* working copy: path -> bytes or NoFile
    bak,                 \* the ".bak" sibling of each path: bytes or NoFile
    ui_files,            \* state["ui_files"]: the inventory, as a sequence of paths
    files_to_enhance,    \* state["files_to_enhance"]: the targets (paths)
    current_file_index,  \* state["current_file_index"]
    enhanced_files,      \* state["enhanced_files"]: the results
    log,                 \* state["log"]
    error,               \* state["error"], "None" when unset
    steps,               \* history: node executions so far
    mutateSteps,         \* history: executions of implement_enhancements so far
    removed,             \* history: files removed by another process so far
    pristine,            \* history: the working copy as the clone left it
    backedUp,            \* history: per path, its content when the latest backup of it was taken
    lastCall,            \* history: the writer call of the step just taken, as it was made
    lastResult,          \* history: what that call did
    lastRevert,          \* history: the revert call of the step just taken and its answer
    lastAnswer,          \* history: how the generator's answer read in the step just taken
    probe                \* a function called on its own: its arguments and what it returned

vars == <<phase, files, bak, ui_files, files_to_enhance, current_file_index,
          enhanced_files, log, error, steps, mutateSteps, removed, pristine, backedUp,
          lastCall, lastResult, lastRevert, lastAnswer, probe>>

\* at most this many files are removed behind the workflow's back
MaxRemoved == 1

NoCall == [called |-> FALSE, path |-> "", new |-> <<>>, pre |-> NoFile, fault |-> "none",
           bakBefore |-> NoFile]

NoResult == [success |-> FALSE, error |-> "", wrote |-> FALSE, bakAtWrite |-> NoFile]

NoRevert == [called |-> FALSE, paths |-> <<>>, faults |-> [p \in Paths |-> "none"],
             successful_reverts |-> <<>>, failed_reverts |-> <<>>, repeat |-> FALSE]

\* no function has been called on its own
NoProbe == [fn |-> "none", arg |-> <<>>, out |-> <<>>]

\* enhance_ui: initial_state; the target directory does not exist yet
Init ==
    /\ phase = "clone_repo"
    /\ files = [p \in Paths |-> NoFile]
    /\ bak = [p \in Paths |-> NoFile]
    /\ ui_files = <<>>
    /\ files_to_enhance = <<>>
    /\ current_file_index = 0
    /\ enhanced_files = <<>>
    /\ log = <<>>
    /\ error = "None"
    /\ steps = 0
    /\ mutateSteps = 0
    /\ removed = 0
    /\ pristine = [p \in Paths |-> NoFile]
    /\ backedUp = [p \in Paths |-> NoFile]
    /\ lastCall = NoCall
    /\ lastResult = NoResult
    /\ lastRevert = NoRevert
    /\ lastAnswer = "none"
    /\ probe = NoProbe

\* a node ran that is not implement_enhancements
Ticked ==
    /\ steps' = steps + 1
    /\ lastCall' = NoCall
    /\ lastResult' = NoResult
    /\ UNCHANGED <<mutateSteps, removed, backedUp, probe>>

\* a variant of the except branch that ends the run without recording the error
FailsSilently(message) ==
    /\ phase' = "complete"
    /\ error' = error
    /\ log' = Append(log, message)

\* the except branch of a node: {**state, "error": ..., "phase": COMPLETE}
Fails(message) ==
    /\ phase' = "complete"
    /\ error' = message
    /\ log' = Append(log, message)

clone_repository ==
    /\ phase = "clone_repo"
    /\ \/ \* git clone succeeded
          /\ \E a \in AstroContents, j \in JsContents :
                files' = [p \in Paths |-> IF p = "a.astro" THEN a ELSE j]
          /\ phase' = "scan_ui_files"
          /\ log' = log \o <<"Cloning repository", "Clone complete: Successfully cloned">>
          /\ UNCHANGED error
       \/ \* git clone exited unsuccessfully: git_clone returns the message
          /\ files' = files
          /\ phase' = "scan_ui_files"
          /\ log' = log \o <<"Cloning repository", "Clone complete: Failed to clone">>
          /\ UNCHANGED error
       \/ \* the tool raised (git could not be started)
          /\ Fails("Error in clone_repository")
          /\ UNCHANGED files
    /\ Ticked
    /\ lastAnswer' = "none"
    /\ lastRevert' = NoRevert
    /\ pristine' = files'
    /\ UNCHANGED <<bak, ui_files, files_to_enhance, current_file_index, enhanced_files>>

\* scan_for_ui_files, as far as the workflow uses it: the readable non-empty
\* files with a UI extension, in path order
Inventory(fl) ==
    LET keep(p) == /\ fl[p] # NoFile
                   /\ Len(fl[p]) > 0
                   /\ Ext[p] \in UiExtensions
                   /\ Decodable(fl[p])
    IN  SelectSeq(<<"a.astro", "b.js">>, keep)

\* a variant that goes on to the analysis whatever was found
AfterScanAlways(total_files) == "analyze_ui"

\* "phase": Phase.ANALYZE_UI if total_files > 0 else Phase.COMPLETE
AfterScan(total_files) == IF total_files > 0 THEN "analyze_ui" ELSE "complete"

scan_ui_files ==
    /\ phase = "scan_ui_files"
    /\ \/ /\ ui_files' = Inventory(files)
          /\ phase' = AfterScan(Len(Inventory(files)))
          /\ error' = IF Len(Inventory(files)) > 0 THEN "None" ELSE "No UI files found"
          /\ log' = log \o <<"Scanning for UI files", "Found UI-related files">>
       \/ \* os.path.getsize raised inside the tool
          /\ Fails("Error in scan_ui_files")
          /\ UNCHANGED ui_files
    /\ Ticked
    /\ lastAnswer' = "none"
    /\ lastRevert' = NoRevert
    /\ UNCHANGED <<files, bak, files_to_enhance, current_file_index, enhanced_files, pristine>>

analyze_ui ==
    /\ phase = "analyze_ui"
    /\ \/ /\ phase' = "identify_opportunities"
          /\ log' = log \o <<"Analyzing UI capabilities...", "Analysis complete">>
          /\ UNCHANGED error
       \/ Fails("Error in analyze_ui")
    /\ Ticked
    /\ lastAnswer' = "none"
    /\ lastRevert' = NoRevert
    /\ UNCHANGED <<files, bak, ui_files, files_to_enhance, current_file_index, enhanced_files,
                   pristine>>

\* how the answer of the plan/opportunity generator reads
\*   "fenced"        a ```json block holding a JSON object
\*   "fenced_broken" a ```json block whose inside is not a JSON object
\*   "raw"           a JSON object and nothing else
\*   "prose"         no ```json block and not JSON
\*   "raise"         llm.invoke raised
Answers == {"fenced", "fenced_broken", "raw", "prose", "raise"}

identify_opportunities ==
    /\ phase = "identify_opportunities"
    /\ \E answer \in Answers :
          /\ lastAnswer' = answer
          /\ CASE answer = "raise" -> Fails("Error in identify_opportunities")
               [] answer = "fenced_broken" ->
                     /\ phase' = "complete"
                     /\ error' = "Error parsing opportunities JSON"
                     /\ log' = log \o <<"Identifying enhancement opportunities",
                                        "Error parsing opportunities JSON">>
               [] OTHER ->
                     \* "prose": the answer of t.identify_enhancement_opportunities is used
                     /\ phase' = "generate_plan"
                     /\ log' = log \o <<"Identifying enhancement opportunities", "Primary focus",
                                        "Design approach", "Identified opportunities in categories">>
                     /\ UNCHANGED error
    /\ Ticked
    /\ lastRevert' = NoRevert
    /\ UNCHANGED <<files, bak, ui_files, files_to_enhance, current_file_index, enhanced_files,
                   pristine>>

\* a variant that keeps every path of the answer
VerifiedAll(fl, mods) == mods

\* the file_modifications that os.path.exists lets through
Verified(fl, mods) == SelectSeq(mods, LAMBDA p : fl[p] # NoFile)

generate_plan ==
    /\ phase = "generate_plan"
    /\ \E answer \in Answers, file_modifications \in SeqsUpTo(Paths, MaxTargets) :
          /\ lastAnswer' = answer
          /\ CASE answer = "raise" ->
                     /\ file_modifications = <<>>
                     /\ Fails("Error in generate_plan")
                     /\ UNCHANGED <<files_to_enhance, current_file_index, enhanced_files>>
               [] answer = "fenced_broken" ->
                     /\ file_modifications = <<>>
                     /\ phase' = "complete"
                     /\ error' = "Error parsing plan JSON"
                     /\ log' = log \o <<"Generating detailed enhancement plan...",
                                        "Error parsing plan JSON">>
                     /\ UNCHANGED <<files_to_enhance, current_file_index, enhanced_files>>
               [] OTHER ->
                     \* "prose": t.generate_enhancement_plan answers with no file_modifications
                     /\ answer = "prose" => file_modifications = <<>>
                     /\ files_to_enhance' = Verified(files, file_modifications)
                     /\ current_file_index' = 0
                     /\ enhanced_files' = <<>>
                     /\ phase' = IF Verified(files, file_modifications) # <<>>
                                 THEN "implement_enhancements" ELSE "summarize"
                     /\ log' = log \o <<"Generating detailed enhancement plan...", "Plan generated",
                                        "Changes planned", "Files to modify">>
                     /\ UNCHANGED error
    /\ Ticked
    /\ lastRevert' = NoRevert
    /\ UNCHANGED <<files, bak, ui_files, pristine>>

\* ------------------------------------------------------------------------
\* implement_enhancements
\* ------------------------------------------------------------------------
\* a variant that stops one target early
MutateDoneEarly(index, targets) == index + 1 >= Len(targets)

\* if current_index >= len(files_to_enhance)
MutateDone(index, targets) == index >= Len(targets)

\* a variant that names a phase no node and no edge of the graph handles
AfterLastTargetUnrouted == "verify"

\* "phase": Phase.VERIFY_CHANGES, once every target has had its step
AfterLastTarget == "verify_changes"

\* a variant that skips a target
AdvanceIndexTwice(index) == index + 2

\* a variant that stays on the same target
AdvanceIndexNever(index) == index

\* "current_file_index": current_index + 1
AdvanceIndex(index) == index + 1

\* a variant that keeps the latest outcome only
RecordedLatestOnly(results, outcome) == <<outcome>>

\* enhanced_files.append({...})
Recorded(results, outcome) == Append(results, outcome)

\* a variant that takes the targets from the end of the list
CurrentTargetFromEnd(targets, index) == targets[Len(targets) - index]

\* current_file = files_to_enhance[current_index]
CurrentTarget(targets, index) == targets[index + 1]

\* what the content generator does: llm.invoke raises, or answers a text
GenRaises == <<"<raise>">>

GenOutcomes == {GenRaises} \cup GenContents

implement_enhancements ==
    /\ phase = "implement_enhancements"
    /\ steps' = steps + 1
    /\ mutateSteps' = mutateSteps + 1
    /\ lastRevert' = NoRevert
    /\ lastAnswer' = "none"
    /\ UNCHANGED <<ui_files, files_to_enhance, error, removed, pristine, probe>>
    /\ IF MutateDone(current_file_index, files_to_enhance) THEN
          /\ phase' = AfterLastTarget
          /\ log' = Append(log, "All files enhanced successfully")
          /\ lastCall' = NoCall
          /\ lastResult' = NoResult
          /\ UNCHANGED <<files, bak, current_file_index, enhanced_files, backedUp>>
       ELSE
          LET file_path == CurrentTarget(files_to_enhance, current_file_index)
          IN  /\ current_file_index' = AdvanceIndex(current_file_index)
              /\ phase' = "implement_enhancements"
              /\ IF files[file_path] = NoFile THEN
                    /\ log' = log \o <<"Enhancing file", "File does not exist - skipping">>
                    /\ lastCall' = NoCall
                    /\ lastResult' = NoResult
                    /\ UNCHANGED <<files, bak, enhanced_files, backedUp>>
                 ELSE IF ~Decodable(files[file_path]) THEN
                    \* get_file_content answers "Error reading file ..."
                    /\ log' = log \o <<"Enhancing file", "Failed to read">>
                    /\ lastCall' = NoCall
                    /\ lastResult' = NoResult
                    /\ UNCHANGED <<files, bak, enhanced_files, backedUp>>
                 ELSE
                    \E gen \in GenOutcomes, fault \in Faults :
                       IF gen = GenRaises THEN
                          /\ fault = "none"
                          /\ lastCall' = NoCall
                          /\ lastResult' = NoResult
                          /\ log' = log \o <<"Enhancing file", "Error enhancing file">>
                          /\ UNCHANGED <<files, bak, enhanced_files, backedUp>>
                       ELSE
                          \E r \in {modify_ui_file(files, bak, file_path, gen, fault)} :
                              /\ lastCall' = [called |-> TRUE, path |-> file_path, new |-> gen,
                                              pre |-> files[file_path], fault |-> fault,
                                              bakBefore |-> bak[file_path]]
                              /\ files' = r.files
                              /\ bak' = r.bak
                              /\ backedUp' = IF fault = "backup" THEN backedUp
                                             ELSE [backedUp EXCEPT ![file_path] = files[file_path]]
                              /\ enhanced_files' =
                                    Recorded(enhanced_files, [path |-> file_path, success |-> r.success])
                              /\ log' = log \o <<"Enhancing file",
                                                 IF r.success THEN "Successfully enhanced"
                                                 ELSE "Failed to enhance">>
                              /\ lastResult' = [success |-> r.success, error |-> r.error,
                                                wrote |-> r.wrote, bakAtWrite |-> r.bakAtWrite]

\* ------------------------------------------------------------------------
\* verify_changes
\* ------------------------------------------------------------------------
\* a variant that ends the run when verification could not be carried out
VerifyExitAborts(raised) == IF raised THEN "complete" ELSE "summarize"

\* "phase": Phase.SUMMARIZE, in the three returns and the two handlers
VerifyExit(raised) == "summarize"

verify_changes ==
    /\ phase = "verify_changes"
    /\ IF enhanced_files = <<>> THEN
          /\ phase' = VerifyExit(FALSE)
          /\ log' = Append(log, "No files were enhanced, skipping verification")
          /\ lastRevert' = NoRevert
          /\ UNCHANGED <<files, bak>>
       ELSE
          \/ \E issues \in {verify_ui_changes(files, enhanced_files)} :
             \E files_to_revert \in {FilesToRevert(issues)} :
                 /\ phase' = VerifyExit(FALSE)
                 /\ IF files_to_revert # <<>> THEN
                       \E faults \in [Paths -> RevertFaults] :
                          \E r \in {revert_ui_changes(files, bak, files_to_revert, faults)} :
                              /\ files' = r.files
                              /\ bak' = r.bak
                              /\ lastRevert' = [called |-> TRUE, paths |-> files_to_revert,
                                                faults |-> faults,
                                                successful_reverts |-> r.successful_reverts,
                                                failed_reverts |-> r.failed_reverts,
                                                repeat |-> FALSE]
                              /\ log' = log \o <<"Verifying enhanced files",
                                                 "Verification found issues",
                                                 "Found potential issues",
                                                 "Reverted problematic files">>
                    ELSE
                       /\ log' = log \o (<<"Verifying enhanced files">> \o
                                         (IF issues # <<>>
                                          THEN <<"Verification found issues",
                                                 "Found potential issues">>
                                          ELSE <<"Verification successful">>))
                       /\ lastRevert' = NoRevert
                       /\ UNCHANGED <<files, bak>>
          \/ \* invoking the verification tool raised, or its answer could not be used
             /\ phase' = VerifyExit(TRUE)
             /\ log' = Append(log, "Error in verify_changes")
             /\ lastRevert' = NoRevert
             /\ UNCHANGED <<files, bak>>
    /\ Ticked
    /\ lastAnswer' = "none"
    /\ UNCHANGED <<ui_files, files_to_enhance, current_file_index, enhanced_files, error,
                   pristine>>

\* ------------------------------------------------------------------------
\* create_summary
\* ------------------------------------------------------------------------
\* "phase": Phase.COMPLETE, in the return and in the handler
SummaryExit(raised) == "complete"

create_summary ==
    /\ phase = "summarize"
    /\ \/ /\ phase' = SummaryExit(FALSE)
          /\ log' = log \o <<"Creating enhancement summary...", "Summary generated successfully">>
       \/ \* llm.invoke raised
          /\ phase' = SummaryExit(TRUE)
          /\ log' = Append(log, "Error in create_summary")
    /\ Ticked
    /\ lastAnswer' = "none"
    /\ lastRevert' = NoRevert
    /\ UNCHANGED <<files, bak, ui_files, files_to_enhance, current_file_index,
                   enhanced_files, error, pristine>>

\* ------------------------------------------------------------------------
\* Another process removes the file the workflow is about to enhance (the
\* case implement_enhancements tests with os.path.exists)
\* ------------------------------------------------------------------------
ExternalRemove ==
    /\ phase = "implement_enhancements"
    /\ current_file_index < Len(files_to_enhance)
    /\ removed < MaxRemoved
    /\ files[files_to_enhance[current_file_index + 1]] # NoFile
    /\ files' = [files EXCEPT ![files_to_enhance[current_file_index + 1]] = NoFile]
    /\ removed' = removed + 1
    /\ lastCall' = NoCall
    /\ lastResult' = NoResult
    /\ lastRevert' = NoRevert
    /\ UNCHANGED <<phase, bak, ui_files, files_to_enhance, current_file_index,
                   enhanced_files, log, error, steps, mutateSteps, pristine, backedUp, probe>>
    /\ lastAnswer' = "none"

\* ------------------------------------------------------------------------
\* The two file tools called on their own, on any working copy
\* ------------------------------------------------------------------------
\* the longest list handed to revert_ui_changes
MaxRevertList == 2

\* the filesystem errors a revert call can meet: at most one path of the
\* list is affected
RevertFaultMaps(files_to_revert) ==
    {f \in [Paths -> RevertFaults] :
        /\ Cardinality({p \in Paths : f[p] # "none"}) <= 1
        /\ \A p \in Paths : f[p] # "none" => \E k \in 1..Len(files_to_revert) :
                                                 files_to_revert[k] = p}

\* the writer calls made on a path: every content when the filesystem works
\* (the contents with markers for the .astro file only, where they matter),
\* and one content for each way the filesystem fails (a failing call never
\* looks at the content)
WriterInputs(file_path) ==
    {<<n, "none">> : n \in {c \in ToolContents : Ext[file_path] = ".astro" \/ ~HasDirective(c)}}
    \cup {<<<<"{", "x", "}">>, f>> : f \in Faults \ {"none"}}

ToolInit ==
    /\ phase = "clone_repo"
    /\ files \in {[p \in Paths |-> IF p = "a.astro" THEN a ELSE j] :
                      a \in AstroContents \cup {NoFile}, j \in JsContents}
    /\ bak = [p \in Paths |-> NoFile]
    /\ ui_files = <<>>
    /\ files_to_enhance = <<>>
    /\ current_file_index = 0
    /\ enhanced_files = <<>>
    /\ log = <<>>
    /\ error = "None"
    /\ steps = 0
    /\ mutateSteps = 0
    /\ removed = 0
    /\ pristine = files
    /\ backedUp = [p \in Paths |-> NoFile]
    /\ lastCall = NoCall
    /\ lastResult = NoResult
    /\ lastRevert = NoRevert
    /\ lastAnswer = "none"
    /\ probe = NoProbe

CallWriter ==
    /\ \E file_path \in Paths :
       \E input \in WriterInputs(file_path) :
          \E r \in {modify_ui_file(files, bak, file_path, input[1], input[2])} :
              /\ lastCall' = [called |-> TRUE, path |-> file_path, new |-> input[1],
                              pre |-> files[file_path], fault |-> input[2],
                              bakBefore |-> bak[file_path]]
              /\ files' = r.files
              /\ bak' = r.bak
              /\ lastResult' = [success |-> r.success, error |-> r.error,
                                wrote |-> r.wrote, bakAtWrite |-> r.bakAtWrite]
    /\ lastRevert' = NoRevert
    /\ UNCHANGED <<phase, ui_files, files_to_enhance, current_file_index, enhanced_files,
                   log, error, steps, mutateSteps, removed, pristine, backedUp,
                   lastAnswer, probe>>

CallRevert ==
    /\ \E files_to_revert \in SeqsUpTo(Paths, MaxRevertList) :
          \E faults \in RevertFaultMaps(files_to_revert) :
             \E r \in {revert_ui_changes(files, bak, files_to_revert, faults)} :
                /\ files' = r.files
                /\ bak' = r.bak
                /\ lastRevert' = [called |-> TRUE, paths |-> files_to_revert, faults |-> faults,
                                  successful_reverts |-> r.successful_reverts,
                                  failed_reverts |-> r.failed_reverts,
                                  repeat |-> /\ lastRevert.called
                                             /\ lastRevert.paths = files_to_revert
                                             /\ lastRevert.failed_reverts = <<>>]
    /\ lastCall' = NoCall
    /\ lastResult' = NoResult
    /\ UNCHANGED <<phase, ui_files, files_to_enhance, current_file_index, enhanced_files,
                   log, error, steps, mutateSteps, removed, pristine, backedUp,
                   lastAnswer, probe>>

ToolNext == CallWriter \/ CallRevert

ToolSpec == ToolInit /\ [][ToolNext]_vars

\* ------------------------------------------------------------------------
\* The validator, the Astro handling and the scan called on their own
\* ------------------------------------------------------------------------
\* the longest text handed to the validator
MaxText == 3

\* the most files a scanned tree holds
MaxTree == 4

TextAlphabet == {"{", "}", "(", ")", "[", "]", "\n", "if", "client:", "load", "x"}

\* balanced texts in which the if-header pattern of validate_syntax occurs
IfTexts == {<<"if", "(", "{", "}", ")">>, <<"if", " ", "(", "x", ")", "{", "}">>}

TextInputs == SeqsUpTo(TextAlphabet, MaxText) \cup ToolContents \cup IfTexts

\* the arguments of a call: a path and a text, or a tree
TextArgs == {[file_path |-> p, content |-> c, tree |-> {}] : p \in DOMAIN Ext, c \in TextInputs}

TreeArgs ==
    {[file_path |-> "", content |-> <<>>, tree |-> t] :
        t \in {u \in SUBSET {SortedFiles[i] : i \in 1..Len(SortedFiles)} :
                  Cardinality(u) <= MaxTree}}

FunInit ==
    /\ probe \in {[fn |-> "none", arg |-> a, out |-> <<>>] : a \in TextArgs \cup TreeArgs}
    /\ phase = "clone_repo"
    /\ files = [p \in Paths |-> NoFile]
    /\ bak = [p \in Paths |-> NoFile]
    /\ ui_files = <<>>
    /\ files_to_enhance = <<>>
    /\ current_file_index = 0
    /\ enhanced_files = <<>>
    /\ log = <<>>
    /\ error = "None"
    /\ steps = 0
    /\ mutateSteps = 0
    /\ removed = 0
    /\ pristine = [p \in Paths |-> NoFile]
    /\ backedUp = [p \in Paths |-> NoFile]
    /\ lastCall = NoCall
    /\ lastResult = NoResult
    /\ lastRevert = NoRevert
    /\ lastAnswer = "none"

\* a pure function reads and writes nothing of the workflow
Pure ==
    UNCHANGED <<phase, files, bak, ui_files, files_to_enhance, current_file_index,
                enhanced_files, log, error, steps, mutateSteps, removed, pristine,
                backedUp, lastCall, lastResult, lastRevert, lastAnswer>>

CallValidate ==
    /\ probe.arg.file_path # ""
    /\ probe' = [fn |-> "validate_syntax", arg |-> probe.arg,
                 out |-> validate_syntax(probe.arg.file_path, probe.arg.content)]
    /\ Pure

CallSanitize ==
    /\ probe.arg.file_path # ""
    /\ probe' = [fn |-> "sanitize", arg |-> probe.arg,
                 out |-> Sanitized(probe.arg.file_path, probe.arg.content)]
    /\ Pure

CallScan ==
    /\ probe.arg.file_path = ""
    /\ probe' = [fn |-> "scan_for_ui_files", arg |-> probe.arg,
                 out |-> scan_for_ui_files(probe.arg.tree)]
    /\ Pure

\* verify_ui_changes on a working copy that holds the text at the path
CallVerify ==
    /\ probe.arg.file_path \in Paths
    /\ probe' = [fn |-> "verify_ui_changes", arg |-> probe.arg,
                 out |-> verify_ui_changes(
                            [q \in Paths |-> IF q = probe.arg.file_path
                                             THEN WriteText(probe.arg.content) ELSE NoFile],
                            <<[path |-> probe.arg.file_path]>>)]
    /\ Pure

FunNext == CallValidate \/ CallSanitize \/ CallScan \/ CallVerify

FunSpec == FunInit /\ [][FunNext]_vars

\* the phases in program order (class Phase)
PhaseOrder ==
    <<"clone_repo", "scan_ui_files", "analyze_ui", "identify_opportunities", "generate_plan",
      "implement_enhancements", "verify_changes", "summarize", "complete">>

\* one node of the graph runs: the node of the current phase
Step ==
    \/ clone_repository
    \/ scan_ui_files
    \/ analyze_ui
    \/ identify_opportunities
    \/ generate_plan
    \/ implement_enhancements
    \/ verify_changes
    \/ create_summary

Next == Step \/ ExternalRemove

Spec == Init /\ [][Next]_vars

\* the graph runs the node of the current phase until the phase is COMPLETE
LiveSpec == Spec /\ WF_vars(Step)

\* ========================================================================
\* Properties
\* ========================================================================

\* C1: every step taken in phase implement_enhancements while
\* current_file_index < len(files_to_enhance) increases current_file_index by
\* exactly 1 and leaves the phase at implement_enhancements, whatever happened
\* to the file of that step.
C1_MutateStepAdvancesByOne ==
    [][(/\ phase = "implement_enhancements"
        /\ current_file_index < Len(files_to_enhance)
        /\ steps' = steps + 1)
       => (/\ current_file_index' = current_file_index + 1
           /\ phase' = "implement_enhancements")]_vars

\* two attempts were made, one recorded as failed by the writer and one that
\* left no record at all
C1_Witness ==
    /\ phase = "implement_enhancements"
    /\ current_file_index = 2
    /\ Len(enhanced_files) = 1
    /\ ~enhanced_files[1].success

\* C2 (as stated): with a non-empty target list the workflow spends exactly
\* len(files_to_enhance) steps in implement_enhancements, the step that makes
\* current_file_index equal to the length being the one that moves on to
\* verify_changes.
C2_ExactlyLenMutateSteps ==
    phase = "verify_changes" => mutateSteps = Len(files_to_enhance)

\* C2 (amended): implement_enhancements runs len(files_to_enhance) + 1 times:
\* one step per target, each leaving the phase unchanged, and then one more
\* step that attempts nothing and moves the phase to verify_changes.
C2_LenPlusOneMutateSteps ==
    /\ phase = "implement_enhancements" => mutateSteps = current_file_index
    /\ phase = "verify_changes" =>
          /\ mutateSteps = Len(files_to_enhance) + 1
          /\ current_file_index = Len(files_to_enhance)

C2_Witness ==
    /\ phase = "verify_changes"
    /\ Len(files_to_enhance) >= 2
    /\ mutateSteps = Len(files_to_enhance) + 1

\* C3 (as stated): a run executes at most 6 + len(files_to_enhance) nodes
\* before it reaches complete.
C3_AtMostSixPlusLen ==
    phase = "complete" => steps <= 6 + Len(files_to_enhance)

\* C3 (amended): a run executes at most 8 + len(files_to_enhance) nodes: the
\* five nodes up to generate_plan, len + 1 executions of
\* implement_enhancements, verify_changes and summarize.
C3_AtMostEightPlusLen ==
    steps <= 8 + Len(files_to_enhance)

C3_Witness ==
    /\ phase = "complete"
    /\ Len(files_to_enhance) >= 1
    /\ steps = 8 + Len(files_to_enhance)

\* C4: the results hold one entry per attempted target: after every step of
\* implement_enhancements len(enhanced_files) equals current_file_index.
C4_OneResultPerAttempt ==
    phase \in {"implement_enhancements", "verify_changes"} =>
        Len(enhanced_files) = current_file_index

\* C5: in every reachable state 0 <= current_file_index <= len(files_to_enhance).
C5_CursorInRange ==
    /\ 0 <= current_file_index
    /\ current_file_index <= Len(files_to_enhance)

C5_Witness ==
    /\ Len(files_to_enhance) >= 2
    /\ current_file_index = Len(files_to_enhance)
    /\ phase = "implement_enhancements"

\* C6: every run eventually reaches phase complete, whatever the nodes'
\* collaborators answer and however the files fare.
C6_EventuallyComplete == <>(phase = "complete")

\* a run that went through a failed writer call and still completed
C6_Witness ==
    /\ phase = "complete"
    /\ error = "None"
    /\ \E k \in 1..Len(enhanced_files) : ~enhanced_files[k].success

\* C7: no step of implement_enhancements sets error or moves the phase to
\* complete, and the phase leaves implement_enhancements for verify_changes
\* only with current_file_index = len(files_to_enhance).
C7_FailureNeverAbortsBatch ==
    [][phase = "implement_enhancements" =>
          /\ error' = error
          /\ phase' \in {"implement_enhancements", "verify_changes"}
          /\ phase' = "verify_changes" =>
                current_file_index' = Len(files_to_enhance)]_vars

\* the first target failed in the writer, the second was still attempted
C7_Witness ==
    /\ phase = "verify_changes"
    /\ Len(enhanced_files) = 2
    /\ ~enhanced_files[1].success
    /\ enhanced_files[2].success

\* C8: within one writer call, whenever the path is written its backup exists
\* and holds the content the path had when the call started; when taking the
\* backup fails the call reports a failure and the path is not written.
C8_BackupBeforeWrite ==
    lastCall.called =>
        /\ lastResult.wrote => lastResult.bakAtWrite = lastCall.pre
        /\ lastCall.fault = "backup" =>
              /\ ~lastResult.success
              /\ ~lastResult.wrote
              /\ files[lastCall.path] = lastCall.pre

\* a write over a path that already had a backup with other content
C8_Witness ==
    /\ lastCall.called
    /\ lastResult.wrote
    /\ lastResult.success
    /\ lastCall.bakBefore # NoFile
    /\ lastCall.bakBefore # lastCall.pre
    /\ files[lastCall.path] # lastCall.pre

\* C9 (as stated): whenever the backup of a path exists it holds the content
\* the path had before the run first wrote to it, also when the path is a
\* target more than once.
C9_BackupHoldsPreRunContent ==
    \A p \in Paths : bak[p] # NoFile => bak[p] = pristine[p]

\* C9 (amended): whenever the backup of a path exists it holds the content the
\* path had at the start of the latest writer call on it that took a backup;
\* a second mutation of the same path overwrites the backup with the content
\* the first one wrote.
C9_BackupHoldsLatestPreCallContent ==
    \A p \in Paths : bak[p] # NoFile => bak[p] = backedUp[p]

\* the same path was written twice and its backup is no longer the pre-run
\* content
C9_Witness ==
    \E p \in Paths :
        /\ bak[p] # NoFile
        /\ bak[p] # pristine[p]
        /\ lastCall.called /\ lastCall.path = p /\ lastResult.success

\* C10: a writer call with empty new content, all file operations succeeding,
\* leaves the content of the path as it was before the call, reports success
\* and leaves a backup equal to that content.
C10_EmptyContentIsNoOp ==
    (lastCall.called /\ lastCall.new = <<>> /\ lastCall.fault = "none") =>
        /\ lastResult.success
        /\ files[lastCall.path] = lastCall.pre
        /\ bak[lastCall.path] = lastCall.pre

\* ------------------------------------------------------------------------
\* C11: a writer call on a path that does not exist answers with a failure
\* ("does not exist") and has no side effect: no file and no backup is
\* created or changed.
\* ------------------------------------------------------------------------
C11_MissingPathNoSideEffect ==
    [][(lastCall'.called /\ lastCall'.pre = NoFile) =>
          /\ ~lastResult'.success
          /\ lastResult'.error = "does not exist"
          /\ files' = files
          /\ bak' = bak]_vars

C11_Witness ==
    /\ lastCall.called
    /\ lastCall.pre = NoFile
    /\ ~lastResult.success
    /\ files[lastCall.path] = NoFile
    /\ bak[lastCall.path] = NoFile

\* ------------------------------------------------------------------------
\* C12: when a writer call fails after the backup step (the read or the
\* write raised) and the restore from the backup succeeds, the path holds
\* the content it had before the call.
\* ------------------------------------------------------------------------
C12_FailureRestoresPreCallContent ==
    (/\ lastCall.called
     /\ ~lastResult.success
     /\ lastResult.error = "Error enhancing"
     /\ lastCall.fault \in {"none", "read", "write"})
        => files[lastCall.path] = lastCall.pre

C12_Witness ==
    /\ lastCall.called
    /\ lastCall.fault = "write"
    /\ ~lastResult.success
    /\ lastCall.pre # <<>>
    /\ files[lastCall.path] = lastCall.pre
    /\ bak[lastCall.path] = lastCall.pre

\* ------------------------------------------------------------------------
\* C13: after a writer call that answers success, the path holds a buffer
\* validate_syntax accepts, or exactly the content it held before the call.
\* ------------------------------------------------------------------------
C13_ValidOrOriginalOnDisk ==
    (lastCall.called /\ lastResult.success)
        => \/ validate_syntax(lastCall.path, files[lastCall.path]).valid
           \/ files[lastCall.path] = lastCall.pre

\* ------------------------------------------------------------------------
\* C14: an .astro file that holds no hydration marker before a writer call
\* holds none after it, whatever content was handed in; content with a
\* marker is never stored as it is.
\* ------------------------------------------------------------------------
C14_NoMarkerReachesDisk ==
    (/\ lastCall.called
     /\ Ext[lastCall.path] = ".astro"
     /\ lastCall.pre # NoFile
     /\ ~HasDirective(lastCall.pre))
        => ~HasDirective(files[lastCall.path])

C14_Witness ==
    /\ lastCall.called
    /\ lastCall.path = "a.astro"
    /\ lastCall.pre = <<"x">>
    /\ lastCall.new = <<"client:", "client:", "load", "load">>
    /\ lastResult.success
    /\ files["a.astro"] = <<>>

\* ------------------------------------------------------------------------
\* C15: a revert of one path whose backup exists puts the backup's content
\* into the path and removes the backup; the same revert made again right
\* after fails with "Backup file not found" and changes nothing.
\* ------------------------------------------------------------------------
C15_RevertThenNoBackup ==
    [][\A p \in Paths :
          (lastRevert'.called /\ lastRevert'.paths = <<p>>) =>
             /\ (bak[p] # NoFile /\ lastRevert'.faults[p] = "none") =>
                   /\ files'[p] = bak[p]
                   /\ bak'[p] = NoFile
                   /\ lastRevert'.successful_reverts = <<p>>
                   /\ lastRevert'.failed_reverts = <<>>
             /\ lastRevert'.repeat =>
                   /\ lastRevert'.successful_reverts = <<>>
                   /\ lastRevert'.failed_reverts =
                         <<[file |-> p, error |-> "Backup file not found"]>>
                   /\ files' = files
                   /\ bak' = bak]_vars

C15_Witness ==
    /\ lastRevert.called
    /\ lastRevert.repeat
    /\ lastRevert.paths = <<"a.astro">>
    /\ lastRevert.failed_reverts = <<[file |-> "a.astro", error |-> "Backup file not found"]>>
    /\ files["a.astro"] = <<"x">>
    /\ bak["a.astro"] = NoFile

\* ------------------------------------------------------------------------
\* C16: a batch revert handles every element of its list on its own: each
\* element is answered in exactly one of successful_reverts and
\* failed_reverts, and a path whose backup exists is restored whatever
\* happened to the elements before it.
\* ------------------------------------------------------------------------
C16_BatchRevertIsPerItem ==
    [][lastRevert'.called =>
          /\ Len(lastRevert'.successful_reverts) + Len(lastRevert'.failed_reverts)
                = Len(lastRevert'.paths)
          /\ \A p \in Paths :
                Cardinality({k \in 1..Len(lastRevert'.successful_reverts) :
                                lastRevert'.successful_reverts[k] = p})
                + Cardinality({k \in 1..Len(lastRevert'.failed_reverts) :
                                  lastRevert'.failed_reverts[k].file = p})
                = Cardinality({k \in 1..Len(lastRevert'.paths) : lastRevert'.paths[k] = p})
          /\ \A k \in 1..Len(lastRevert'.paths) :
                LET p == lastRevert'.paths[k]
                IN  (bak[p] # NoFile /\ lastRevert'.faults[p] = "none") =>
                       /\ files'[p] = bak[p]
                       /\ bak'[p] = NoFile
                       /\ \E j \in 1..Len(lastRevert'.successful_reverts) :
                             lastRevert'.successful_reverts[j] = p]_vars

C16_Witness ==
    /\ lastRevert.called
    /\ lastRevert.paths = <<"a.astro", "b.js">>
    /\ lastRevert.failed_reverts = <<[file |-> "a.astro", error |-> "Backup file not found"]>>
    /\ lastRevert.successful_reverts = <<"b.js">>
    /\ files["b.js"] = <<"{", "\r", "\n", "}">>
    /\ bak["b.js"] = NoFile

\* ------------------------------------------------------------------------
\* C17: when the verification of a Verify step reports a high-severity
\* syntax issue for a mutated file whose backup exists, the step reverts the
\* file: at Summarize it holds the former backup's content and the backup
\* is gone.
\* ------------------------------------------------------------------------
C17_VerifyRevertsSyntaxIssues ==
    [][(/\ phase = "verify_changes"
        /\ phase' = "summarize"
        /\ Last(log') \in {"Found potential issues", "Reverted problematic files"}) =>
          \A i \in 1..Len(verify_ui_changes(files, enhanced_files)) :
             LET issue == verify_ui_changes(files, enhanced_files)[i]
             IN  (/\ issue.severity = "high"
                  /\ issue.kind \in {"script", "css"}
                  /\ bak[issue.file] # NoFile) =>
                     /\ files'[issue.file] = bak[issue.file]
                     /\ bak'[issue.file] = NoFile]_vars

\* ------------------------------------------------------------------------
\* C18: a Verify step always ends in Summarize and a Summarize step always
\* ends in Complete, whatever verification finds and whatever raises, and
\* neither step touches error.
\* ------------------------------------------------------------------------
C18_VerifyAndSummarizeAlwaysAdvance ==
    [][/\ phase = "verify_changes" => (phase' = "summarize" /\ error' = error)
       /\ phase = "summarize" => (phase' = "complete" /\ error' = error)]_vars

C18_Witness ==
    /\ phase = "summarize"
    /\ Last(log) = "Error in verify_changes"
    /\ enhanced_files # <<>>
    /\ error = "None"

\* ------------------------------------------------------------------------
\* C19: a step of the workflow leaves the phase where it is only in
\* implement_enhancements; otherwise it moves it to the next phase in
\* program order, from generate_plan to summarize, or to complete.
\* ------------------------------------------------------------------------
C19_PhaseNeverMovesBack ==
    [][steps' = steps + 1 =>
          \/ phase = "implement_enhancements" /\ phase' = phase
          \/ \E i \in 1..(Len(PhaseOrder) - 1) :
                PhaseOrder[i] = phase /\ PhaseOrder[i + 1] = phase'
          \/ phase = "generate_plan" /\ phase' = "summarize"
          \/ phase # "complete" /\ phase' = "complete"]_vars

C19_Witness ==
    /\ phase = "summarize"
    /\ mutateSteps = 0
    /\ steps = 5

\* ------------------------------------------------------------------------
\* C20: a step that moves to complete from a phase other than summarize
\* sets error; error is set only in phase complete; and once set it is
\* never cleared.
\* ------------------------------------------------------------------------
C20_ErrorOnlyWithEarlyComplete ==
    /\ [](error # "None" => phase = "complete")
    /\ [][/\ (phase' = "complete" /\ phase \notin {"summarize", "complete"}) =>
               (error = "None" /\ error' # "None")
          /\ error # "None" => error' = error]_vars

C20_Witness ==
    /\ phase = "complete"
    /\ error = "Error parsing plan JSON"
    /\ steps = 5


C22_FailedCloneEndsRun ==
    [][(phase = "clone_repo" /\ steps' = steps + 1
        /\ Last(log') = "Clone complete: Failed to clone") =>
          (phase' = "complete" /\ error' # "None")]_vars

\* ------------------------------------------------------------------------
\* C23: an identify_opportunities or generate_plan step whose generator
\* answer is not well-formed JSON (no parseable ```json block and no
\* parseable raw JSON) ends the run: phase complete with error set.
C23_MalformedAnswerEndsRun ==
    [][(phase \in {"identify_opportunities", "generate_plan"} /\ steps' = steps + 1
        /\ lastAnswer' \in {"prose", "fenced_broken"}) =>
          (phase' = "complete" /\ error' # "None")]_vars

\* ------------------------------------------------------------------------
\* Notions the properties of the validator are stated with
\* ------------------------------------------------------------------------
\* the delimiters of s matched left to right from index i, open holding the
\* indices of the openers not closed yet: ok is FALSE when a closer meets no
\* opener or the wrong one
RECURSIVE Matching(_, _, _)
Matching(s, i, open) ==
    IF i > Len(s) THEN [ok |-> TRUE, open |-> open]
    ELSE IF s[i] \in {"(", "[", "{"} THEN Matching(s, i + 1, Append(open, i))
    ELSE IF s[i] \in {")", "]", "}"} THEN
        IF open = <<>> \/ <<s[open[Len(open)]], s[i]>> \notin {<<"(", ")">>, <<"[", "]">>, <<"{", "}">>}
        THEN [ok |-> FALSE, open |-> open]
        ELSE Matching(s, i + 1, SubSeq(open, 1, Len(open) - 1))
    ELSE Matching(s, i + 1, open)

\* the delimiters of s are balanced and properly nested
Balanced(s) == Matching(s, 1, <<>>).ok /\ Matching(s, 1, <<>>).open = <<>>

\* s is balanced but for one "{" that is never closed
OneUnclosedBrace(s) ==
    /\ Matching(s, 1, <<>>).ok
    /\ Len(Matching(s, 1, <<>>).open) = 1
    /\ s[Matching(s, 1, <<>>).open[1]] = "{"

\* the 1-based line of s[i]
LineOf(s, i) == 1 + Cardinality({k \in 1..(i - 1) : s[k] = "\n"})

\* the characters of s[a..b]
RECURSIVE Width(_, _, _)
Width(s, a, b) == IF a > b THEN 0 ELSE TokLen(s[a]) + Width(s, a + 1, b)

\* the 1-based column of s[i]: one more than the characters before it on
\* its line
ColumnOf(s, i) ==
    LET breaks == {k \in 1..(i - 1) : s[k] = "\n"}
        start  == IF breaks = {} THEN 1 ELSE 1 + CHOOSE k \in breaks : \A j \in breaks : j <= k
    IN  1 + Width(s, start, i - 1)

\* ------------------------------------------------------------------------
\* C24: for every path and every text whose delimiters are balanced and
\* properly nested, validate_syntax answers valid with the content unchanged.
C24_BalancedIsValid ==
    (probe.fn = "validate_syntax" /\ Balanced(probe.arg.content)) =>
        (probe.out.valid /\ probe.out.content = probe.arg.content)

\* ------------------------------------------------------------------------
\* C25: for every text balanced but for exactly one unclosed "{",
\* validate_syntax answers invalid with the unclosed diagnostic, whose line
\* and column are the 1-based line and column of that "{".
C25_UnclosedBracePosition ==
    (probe.fn = "validate_syntax" /\ OneUnclosedBrace(probe.arg.content)) =>
        /\ ~probe.out.valid
        /\ probe.out.kind = "unclosed"
        /\ probe.out.line = LineOf(probe.arg.content, Matching(probe.arg.content, 1, <<>>).open[1])
        /\ probe.out.col = ColumnOf(probe.arg.content, Matching(probe.arg.content, 1, <<>>).open[1])

\* ------------------------------------------------------------------------
\* Notions the properties of the scan are stated with
\* ------------------------------------------------------------------------
\* every extension of the extension-to-category table
TableExtensions ==
    UNION {{ui_extensions[k].extensions[e] : e \in 1..Len(ui_extensions[k].extensions)} :
              k \in 1..Len(ui_extensions)}

\* the entries of a scan result, whatever their aspect
EntriesOf(out) == UNION {{out.ui_files[a][i] : i \in 1..Len(out.ui_files[a])} : a \in Aspects}

\* a readable file of a size and an extension the scan accepts
Qualifies(f) ==
    /\ FileSize(f) > 0
    /\ FileSize(f) <= 1000000
    /\ LowerText(SplitExt(f.path)) \in TableExtensions
    /\ Decodable(f.bytes)

\* the fixed order of the aspects
AspectOrder == <<"theme", "animation", "layout", "component", "navigation", "performance">>

\* score(a) = 3 * keywords of a in the path + keywords of a in the content
Score(a, path, content) ==
    LET kws == (CHOOSE r \in {ui_keywords[k] : k \in 1..Len(ui_keywords)} : r.aspect = a).keywords
        in(text) == Cardinality({k \in 1..Len(kws) : Contains(LowerText(text), kws[k])})
    IN  3 * in(path) + in(content)

\* the first aspect of the order that attains the highest score, "other"
\* when every score is 0
FirstBest(path, content) ==
    LET best == {i \in 1..Len(AspectOrder) :
                    \A j \in 1..Len(AspectOrder) :
                        Score(AspectOrder[j], path, content) <= Score(AspectOrder[i], path, content)}
        first == CHOOSE i \in best : \A j \in best : i <= j
    IN  IF Score(AspectOrder[first], path, content) > 0 THEN AspectOrder[first] ELSE "other"

\* ------------------------------------------------------------------------
\* C26: the scan lists a file only if its size is non-zero and at most
\* 1,000,000 bytes and its extension is in the extension table; and a tree
\* of three qualifying readable files and one 0-byte file yields exactly
\* three entries.
C26_ScanFilter ==
    probe.fn = "scan_for_ui_files" =>
        /\ \A e \in EntriesOf(probe.out) :
              \E f \in probe.arg.tree :
                  /\ f.path = e.path
                  /\ FileSize(f) # 0
                  /\ FileSize(f) <= 1000000
                  /\ LowerText(SplitExt(f.path)) \in TableExtensions
        /\ (/\ Cardinality(probe.arg.tree) = 4
            /\ Cardinality({f \in probe.arg.tree : Qualifies(f)}) = 3
            /\ Cardinality({f \in probe.arg.tree : FileSize(f) = 0}) = 1) =>
              /\ probe.out.total_files = 3
              /\ Cardinality(EntriesOf(probe.out)) = 3

\* a tree of three qualifying files, one of them of exactly 1,000,000
\* bytes, and one 0-byte file has been scanned
C26_Witness ==
    /\ probe.fn = "scan_for_ui_files"
    /\ Cardinality(probe.arg.tree) = 4
    /\ Cardinality({f \in probe.arg.tree : Qualifies(f)}) = 3
    /\ Cardinality({f \in probe.arg.tree : FileSize(f) = 0}) = 1
    /\ \E f \in probe.arg.tree : FileSize(f) = 1000000
    /\ probe.out.total_files = 3

\* ------------------------------------------------------------------------
\* C27: every file the scan lists is listed under, and carries, the first
\* aspect in the order theme, animation, layout, component, navigation,
\* performance that attains the highest score 3 * (keywords in the path) +
\* (keywords in the content), case-insensitively, when that score is above
\* 0, and under "other" when every score is 0.
C27_AspectIsFirstBest ==
    probe.fn = "scan_for_ui_files" =>
        \A a \in Aspects : \A i \in 1..Len(probe.out.ui_files[a]) :
            \E f \in probe.arg.tree :
                /\ f.path = probe.out.ui_files[a][i].path
                /\ probe.out.ui_files[a][i].aspect = a
                /\ a = FirstBest(f.path, f.bytes)

\* a scan has listed a file whose two best aspects tie, a file whose path
\* keyword outweighs two content keywords in upper case, and a file without
\* any keyword
C27_Witness ==
    /\ probe.fn = "scan_for_ui_files"
    /\ \E e \in EntriesOf(probe.out), f \in probe.arg.tree :
          /\ f.path = e.path /\ e.aspect = "animation"
          /\ Score("animation", f.path, f.bytes) = Score("layout", f.path, f.bytes)
    /\ \E e \in EntriesOf(probe.out), f \in probe.arg.tree :
          /\ f.path = e.path /\ e.aspect = "navigation"
          /\ Score("theme", f.path, f.bytes) = 2
          /\ f.bytes # LowerText(f.bytes)
    /\ \E e \in EntriesOf(probe.out) : e.aspect = "other"

\* ------------------------------------------------------------------------
\* C28: for an .astro path the text the Astro handling returns holds no
\* client directive, and it reports a change exactly when the text handed
\* in held one; for any other path the text comes back unchanged.
C28_SanitizerRemovesMarkers ==
    probe.fn = "sanitize" =>
        IF Ext[probe.arg.file_path] = ".astro"
        THEN /\ ~HasDirective(probe.out.content)
             /\ probe.out.changed <=> HasDirective(probe.arg.content)
        ELSE /\ probe.out.content = probe.arg.content
             /\ ~probe.out.changed

\* ------------------------------------------------------------------------
\* C29: when modify_ui_file fails after it took the backup and its handler
\* restores the path from the backup, the backup is consumed: after the
\* call path + ".bak" does not exist.
C29_RestoreConsumesBackup ==
    (/\ lastCall.called
     /\ ~lastResult.success
     /\ lastResult.error = "Error enhancing"
     /\ ~RestoreFails(lastCall.fault)) =>
        bak[lastCall.path] = NoFile

\* ------------------------------------------------------------------------
\* C30: log and enhanced_files only grow at the end: after every step the
\* previous log is a prefix of the new one, and in a step taken in phase
\* implement_enhancements, verify_changes or summarize the previous
\* enhanced_files is a prefix of the new one, so no recorded outcome changes.
C30_AppendOnly ==
    [][/\ Len(log) <= Len(log')
       /\ SubSeq(log', 1, Len(log)) = log
       /\ phase \in {"implement_enhancements", "verify_changes", "summarize"} =>
             /\ Len(enhanced_files) <= Len(enhanced_files')
             /\ SubSeq(enhanced_files', 1, Len(enhanced_files)) = enhanced_files]_vars

\* a run has recorded two outcomes, a failure first, and has gone through
\* verify_changes and create_summary since
C30_Witness ==
    /\ phase = "complete"
    /\ error = "None"
    /\ Len(enhanced_files) = 2
    /\ ~enhanced_files[1].success
    /\ Len(log) > 10

\* ------------------------------------------------------------------------
\* C31: targets are processed one at a time in the order of the index: the
\* k-th execution of implement_enhancements that attempts a target attempts
\* files_to_enhance[k], a step makes at most one writer call and records at
\* most one outcome, and the paths of enhanced_files follow one another as
\* they do in files_to_enhance.
C31_TargetsInIndexOrder ==
    [][(/\ phase = "implement_enhancements"
        /\ steps' = steps + 1
        /\ current_file_index < Len(files_to_enhance)) =>
          /\ mutateSteps' = current_file_index + 1
          /\ lastCall'.called => lastCall'.path = files_to_enhance[mutateSteps']
          /\ Len(enhanced_files') <= Len(enhanced_files) + 1
          /\ enhanced_files' # enhanced_files =>
                /\ lastCall'.called
                /\ enhanced_files'[Len(enhanced_files')].path = files_to_enhance[mutateSteps']
          /\ \E at \in [1..Len(enhanced_files') -> 1..current_file_index'] :
                /\ \A i, j \in DOMAIN at : i < j => at[i] < at[j]
                /\ \A i \in DOMAIN at : enhanced_files'[i].path = files_to_enhance[at[i]]]_vars

\* the second of two different targets has just been handed to the writer,
\* after the first was
C31_Witness ==
    /\ phase = "implement_enhancements"
    /\ Len(files_to_enhance) = 2
    /\ files_to_enhance[1] # files_to_enhance[2]
    /\ current_file_index = 2
    /\ lastCall.called
    /\ lastCall.path = files_to_enhance[2]
    /\ Len(enhanced_files) = 2

\* ------------------------------------------------------------------------
\* the first closing delimiter of s, from index i on, that meets no opener
\* or the wrong one: at is its index (0 when there is none) and pending the
\* indices of the openers still open when it is met
RECURSIVE BadCloser(_, _, _)
BadCloser(s, i, open) ==
    IF i > Len(s) THEN [at |-> 0, pending |-> open]
    ELSE IF s[i] \in {"(", "[", "{"} THEN BadCloser(s, i + 1, Append(open, i))
    ELSE IF s[i] \in {")", "]", "}"} THEN
        IF open = <<>> \/ <<s[open[Len(open)]], s[i]>> \notin {<<"(", ")">>, <<"[", "]">>, <<"{", "}">>}
        THEN [at |-> i, pending |-> open]
        ELSE BadCloser(s, i + 1, SubSeq(open, 1, Len(open) - 1))
    ELSE BadCloser(s, i + 1, open)

\* ------------------------------------------------------------------------
\* C32: for every text that ends with two or more delimiters still open,
\* the unclosed diagnostic of validate_syntax names the one opened first,
\* with its line and column.
C32_UnclosedNamesEarliest ==
    (/\ probe.fn = "validate_syntax"
     /\ Matching(probe.arg.content, 1, <<>>).ok
     /\ Len(Matching(probe.arg.content, 1, <<>>).open) >= 2) =>
        /\ probe.out.kind = "unclosed"
        /\ probe.out.ch = probe.arg.content[Matching(probe.arg.content, 1, <<>>).open[1]]
        /\ probe.out.line = LineOf(probe.arg.content, Matching(probe.arg.content, 1, <<>>).open[1])
        /\ probe.out.col = ColumnOf(probe.arg.content, Matching(probe.arg.content, 1, <<>>).open[1])

\* ------------------------------------------------------------------------
\* C33: when the first delimiter error of a text is a closing delimiter,
\* validate_syntax answers invalid with the content unchanged, as
\* unexpected when no opener is pending and as mismatched otherwise, and
\* with the 1-based line and column of that closing character.
C33_CloserErrorPosition ==
    (/\ probe.fn = "validate_syntax"
     /\ BadCloser(probe.arg.content, 1, <<>>).at # 0) =>
        /\ ~probe.out.valid
        /\ probe.out.content = probe.arg.content
        /\ probe.out.kind = IF BadCloser(probe.arg.content, 1, <<>>).pending = <<>>
                            THEN "unexpected" ELSE "mismatched"
        /\ probe.out.line = LineOf(probe.arg.content, BadCloser(probe.arg.content, 1, <<>>).at)
        /\ probe.out.col = ColumnOf(probe.arg.content, BadCloser(probe.arg.content, 1, <<>>).at)

\* ------------------------------------------------------------------------
\* C34: for a .js or .jsx path and a text in which an "if (" header reaches
\* its "{" without a ")", validate_syntax answers invalid with the fixed
\* diagnostic and a buffer that has the ")" inserted, not with a bracket
\* failure and the content unchanged.
C34_IfHeaderIsFixed ==
    (/\ probe.fn = "validate_syntax"
     /\ Ext[probe.arg.file_path] \in {".js", ".jsx"}
     /\ \E i \in 1..Len(probe.arg.content) : IfMatchEnd(probe.arg.content, i) # 0) =>
        /\ ~probe.out.valid
        /\ probe.out.kind = "fixed"
        /\ Count(probe.out.content, ")") > Count(probe.arg.content, ")")

\* ------------------------------------------------------------------------
\* C35: the repaired if-header buffer can reach the file: for a .js target
\* that exists and can be read there is content for which validate_syntax
\* returns the fixed buffer, validating that buffer again succeeds, and the
\* writer stores the fixed buffer, not the original content.
C35_AutoFixReachesDisk ==
    \A p \in {q \in Paths : Ext[q] \in {".js", ".jsx"}} :
       (files[p] # NoFile /\ Decodable(files[p])) =>
          \E c \in TextInputs :
             /\ validate_syntax(p, c).kind = "fixed"
             /\ validate_syntax(p, validate_syntax(p, c).content).valid
             /\ validate_syntax(p, c).content # ReadText(files[p])
             /\ Transformed(p, ReadText(files[p]), c) = validate_syntax(p, c).content

\* ------------------------------------------------------------------------
\* C36: verification and the validator agree on delimiter balance: for
\* every content of a .js or .jsx file, verify_ui_changes reports a
\* high-severity syntax issue exactly when the bracket scan of
\* validate_syntax reports unexpected, mismatched or unclosed; so a content
\* validate_syntax accepts is never reported for its brackets.
C36_VerifyAgreesWithValidator ==
    (probe.fn = "verify_ui_changes" /\ Ext[probe.arg.file_path] \in {".js", ".jsx"}) =>
        /\ (\E i \in 1..Len(probe.out) :
               probe.out[i].kind = "script" /\ probe.out[i].severity = "high")
           <=> BracketScan(probe.arg.content, 1, <<>>, 1, 1).kind
                   \in {"unexpected", "mismatched", "unclosed"}
        /\ validate_syntax(probe.arg.file_path, probe.arg.content).valid =>
              \A i \in 1..Len(probe.out) : probe.out[i].kind # "script"

\* a script text whose only fault is a bracket left open has been verified
\* and reported
C36_Witness ==
    /\ probe.fn = "verify_ui_changes"
    /\ Ext[probe.arg.file_path] = ".js"
    /\ BracketScan(probe.arg.content, 1, <<>>, 1, 1).kind = "unclosed"
    /\ Len(probe.out) = 1
    /\ probe.out[1].kind = "script"

\* ------------------------------------------------------------------------
\* C37: in the result of scan_for_ui_files every file of the inventory is in
\* exactly one aspect group, the entries of each group are in ascending
\* order of their paths, and total_files is the sum of the group sizes.
C37_GroupsPartitionSortedCounted ==
    probe.fn = "scan_for_ui_files" =>
       LET groups == probe.out.ui_files
           places(path) == {<<a, i>> \in Aspects \X (1..Cardinality(probe.arg.tree)) :
                               i <= Len(groups[a]) /\ groups[a][i].path = path}
           slots == {<<a, i>> \in Aspects \X (1..Cardinality(probe.arg.tree)) :
                        i <= Len(groups[a])}
       IN  /\ \A f \in probe.arg.tree :
                 Qualifies(f) => Cardinality(places(f.path)) = 1
           /\ \A e \in EntriesOf(probe.out) : Cardinality(places(e.path)) = 1
           /\ \A a \in Aspects : \A i, j \in 1..Len(groups[a]) :
                 i < j => PathLess(groups[a][i].path, groups[a][j].path)
           /\ probe.out.total_files = Cardinality(slots)

\* a scan whose result has two files in one group and a file in another
C37_Witness ==
    /\ probe.fn = "scan_for_ui_files"
    /\ \E a, b \in Aspects :
          /\ a # b
          /\ Len(probe.out.ui_files[a]) >= 2
          /\ Len(probe.out.ui_files[b]) >= 1
    /\ probe.out.total_files >= 3

\* ------------------------------------------------------------------------
\* C38: when the scan finds no file for the inventory (no qualifying file,
\* or no working copy at all), the scan_ui_files step ends the run: the
\* phase is complete and the error is set; no analysis, plan or
\* implementation step follows and the writer is never called.
C38_EmptyInventoryEndsRun ==
    [][/\ (/\ phase = "scan_ui_files"
           /\ steps' = steps + 1
           /\ Len(Inventory(files)) = 0) =>
              /\ phase' = "complete"
              /\ error' # "None"
              /\ ui_files' = <<>>
              /\ mutateSteps' = 0
              /\ ~lastCall'.called
       /\ (phase = "complete" /\ ui_files = <<>>) =>
              /\ phase' = "complete"
              /\ steps' = steps
              /\ mutateSteps' = 0
              /\ ~lastCall'.called
              /\ files' = files
              /\ bak' = bak]_vars

\* the run has ended in the scan of a working copy with nothing to list
C38_Witness ==
    /\ phase = "complete"
    /\ error = "No UI files found"
    /\ ui_files = <<>>
    /\ steps = 2
    /\ mutateSteps = 0

\* ------------------------------------------------------------------------
\* C39: every target generate_plan selects is a file of the inventory: a
\* path the scan did not list never becomes a target and is never handed to
\* the writer.
C39_TargetsAreInventoryFiles ==
    /\ \A i \in 1..Len(files_to_enhance) :
          \E j \in 1..Len(ui_files) : ui_files[j] = files_to_enhance[i]
    /\ lastCall.called => \E j \in 1..Len(ui_files) : ui_files[j] = lastCall.path

\* ------------------------------------------------------------------------
\* C40: the steps scan_ui_files, analyze_ui, identify_opportunities,
\* generate_plan and summarize leave every file and every backup as they
\* were; an implement_enhancements step changes at most the file of its
\* current target and the backup of that file.
C40_FilesChangeOnlyInMutate ==
    [][steps' = steps + 1 =>
          /\ phase \in {"scan_ui_files", "analyze_ui", "identify_opportunities",
                        "generate_plan", "summarize"} =>
                files' = files /\ bak' = bak
          /\ phase = "implement_enhancements" =>
                IF current_file_index >= Len(files_to_enhance)
                THEN files' = files /\ bak' = bak
                ELSE \A p \in Paths :
                        p # files_to_enhance[current_file_index + 1] =>
                           files'[p] = files[p] /\ bak'[p] = bak[p]]_vars

\* the writer has just stored new content in its target and backed it up,
\* and the other file of the working copy is as the clone left it
C40_Witness ==
    /\ phase = "implement_enhancements"
    /\ lastCall.called
    /\ lastResult.wrote
    /\ files[lastCall.path] # lastCall.pre
    /\ bak[lastCall.path] = lastCall.pre
    /\ \E q \in Paths :
          /\ q # lastCall.path
          /\ files[q] # NoFile
          /\ files[q] = pristine[q]
          /\ bak[q] = NoFile

============================================================================
